---- MODULE Spec2Model ----
(***************************************************************************)
(* Model of geomstats' hyperbolic space (src/geomstats/hyperbolic_space.py) *)
(* and general linear group (src/geomstats/geometry/general_linear.py).    *)
(*                                                                         *)
(* Numbers are exact integers.  Inputs are drawn from the sets on which    *)
(* every intermediate value of the code is an integer: square roots of     *)
(* perfect squares, inverses of matrices of determinant +1 or -1, matrix   *)
(* exponentials of nilpotent matrices and matrix logarithms of unipotent   *)
(* matrices.  Floating-point rounding is outside the model.                *)
(*                                                                         *)
(* The interpreter is CPython without -O: assert statements are executed.  *)
(***************************************************************************)
EXTENDS Integers, Sequences, FiniteSets, TLC

VARIABLES
    op,       \* name of the last operation the caller invoked
    args,     \* the argument values as they were passed to that call
    ret,      \* outcome of that call: [err, val] (exp adds the call trace)
    mem,      \* current contents of the caller's arrays: point, base, ret
    path,     \* the closure returned by orbit, when there is one
    pathret,  \* outcome of the last call of that closure
    writes    \* element writes the caller made since the last call

vars == <<op, args, ret, mem, path, pathret, writes>>

(* ------------------------------ bounds --------------------------------- *)

MaxCoord == 3    \* hyperbolic coordinates range over -MaxCoord..MaxCoord
Dim == 2         \* intrinsic dimension of the hyperbolic space
MaxEntry == 1    \* matrix entries range over -MaxEntry..MaxEntry
MaxTime == 1     \* orbit times range over 0..MaxTime
MaxTimes == 2    \* longest vector of times passed to a path function
MaxWrites == 1   \* element writes the caller makes after one call

(* -------------------------- Python outcomes ---------------------------- *)

\* Python's None; also the value slot of a call that raised.
None == <<>>

\* A call that returned v.
Return(v) == [err |-> "none", val |-> v]

\* A call that raised exception e at source line `line`.
Raise(e, line) == [err |-> e, val |-> None, line |-> line]

\* Truth value of the object tested by `assert`; of the values the asserted
\* expressions of this module can produce, only None is false.
Truthy(v) == v # None

(* ---------------------------- arithmetic ------------------------------- *)

Abs(x) == IF x < 0 THEN -x ELSE x

IsSquare(x) == x >= 0 /\ \E r \in 0..x : r * r = x

\* math.sqrt / np.sqrt on the perfect squares.
Sqrt(x) == CHOOSE r \in 0..x : r * r = x

RECURSIVE DotUpTo(_, _, _)
DotUpTo(a, b, n) == IF n = 0 THEN 0 ELSE DotUpTo(a, b, n - 1) + a[n] * b[n]

\* np.dot of two 1-D arrays.
Dot(a, b) == DotUpTo(a, b, Len(a))

\* scalar * 1-D array, and sums and differences of 1-D arrays
Scale(c, v) == [i \in 1..Len(v) |-> c * v[i]]
VecAdd(a, b) == [i \in 1..Len(a) |-> a[i] + b[i]]
VecSub(a, b) == [i \in 1..Len(a) |-> a[i] - b[i]]

\* EPSILON = 1e-6 and TOLERANCE = 1e-12 lie strictly between 0 and 1, so an
\* integer quantity is below either of them exactly when it is below 1.
BelowThreshold(q) == q < 1

(* ------------------------- hyperbolic space ---------------------------- *)

embedding_inner_product(vector_a, vector_b) ==
    Dot(vector_a, vector_b) - 2 * vector_a[1] * vector_b[1]

embedding_squared_norm(vector) == embedding_inner_product(vector, vector)

\* The body is a single assert and there is no return statement: the call
\* raises on a point off the hyperboloid and returns None on a point on it.
belongs(point) ==
    IF BelowThreshold(Abs(embedding_squared_norm(point) + 1))
    THEN Return(None)
    ELSE Raise("AssertionError", 57)

\* The statement `assert self.belongs(point)` at source line `line`: an
\* exception of the call propagates, a false value raises AssertionError.
AssertBelongs(point, line) ==
    LET b == belongs(point)
    IN  IF b.err # "none" THEN b
        ELSE IF Truthy(b.val) THEN Return(None)
        ELSE Raise("AssertionError", line)

intrinsic_to_extrinsic_coords(point_intrinsic) ==
    LET dimension == Len(point_intrinsic)
    IN  Return([i \in 1..(dimension + 1) |->
                  IF i = 1
                  THEN Sqrt(1 + Dot(point_intrinsic, point_intrinsic))
                  ELSE point_intrinsic[i - 1]])

extrinsic_to_intrinsic_coords(point_extrinsic) ==
    LET a == AssertBelongs(point_extrinsic, 76)
    IN  IF a.err # "none" THEN a
        ELSE Return(Tail(point_extrinsic))

projection_to_tangent_space(ref_point, vector) ==
    LET a == AssertBelongs(ref_point, 85)
    IN  IF a.err # "none" THEN a
        ELSE LET inner_prod == embedding_inner_product(ref_point, vector)
                 sq_norm_ref_point == embedding_squared_norm(ref_point)
             IN  \* sq_norm_ref_point is -1 past the assert: the division
                 \* is exact
                 Return(VecSub(vector,
                               Scale(inner_prod \div sq_norm_ref_point,
                                     ref_point)))

\* An angle is kept as the integer whose arccosh it is: Arccosh(1) is 0.
Arccosh(x) == [arccosh |-> x]
ZeroAngle == Arccosh(1)

riemannian_dist(point_a, point_b) ==
    LET a == AssertBelongs(point_a, 163)
        b == AssertBelongs(point_b, 164)
    IN  IF a.err # "none" THEN a
        ELSE IF b.err # "none" THEN b
        ELSE LET sq_norm_a == embedding_squared_norm(point_a)
                 sq_norm_b == embedding_squared_norm(point_b)
                 inner_prod == embedding_inner_product(point_a, point_b)
                 \* sq_norm_a * sq_norm_b is 1 past the asserts
                 cosh_angle == (- inner_prod) \div Sqrt(sq_norm_a * sq_norm_b)
             IN  IF cosh_angle <= 1 THEN Return(ZeroAngle)
                 ELSE Return(Arccosh(cosh_angle))

\* The series branch at angle 0 gives both coefficients 1; the closed-form
\* branch gives angle / sinh(angle) and angle / tanh(angle), kept symbolic.
riemannian_log(ref_point, point) ==
    LET a == AssertBelongs(ref_point, 139)
        b == AssertBelongs(point, 140)
    IN  IF a.err # "none" THEN a
        ELSE IF b.err # "none" THEN b
        ELSE LET d == riemannian_dist(ref_point, point)
             IN  IF d.err # "none" THEN d
                 ELSE IF d.val = ZeroAngle
                 THEN Return(VecSub(Scale(1, point), Scale(1, ref_point)))
                 ELSE Return([fn |-> "log", angle |-> d.val,
                              point |-> point, ref_point |-> ref_point])

\* The series branch at norm 0 gives both coefficients 1; the closed-form
\* branch gives cosh(norm) and sinh(norm) / norm, kept symbolic.
riemannian_exp(ref_point, vector) ==
    LET a == AssertBelongs(ref_point, 105)
    IN  IF a.err # "none" THEN a
        ELSE LET p == projection_to_tangent_space(ref_point, vector)
             IN  IF p.err # "none" THEN p
                 ELSE LET tangent_vec == p.val
                          sq == embedding_squared_norm(tangent_vec)
                      IN  IF sq < 0 THEN Raise("ValueError", 108)
                          ELSE IF BelowThreshold(sq)
                          THEN Return(VecAdd(Scale(1, ref_point),
                                             Scale(1, tangent_vec)))
                          ELSE Return([fn |-> "exp", sq_norm |-> sq,
                                       ref_point |-> ref_point,
                                       tangent_vec |-> tangent_vec])

(* ------------------------- hyperbolic inputs --------------------------- *)

Coord == (-MaxCoord)..MaxCoord

\* intrinsic points whose extrinsic form has integer coordinates
Intrinsic == {x \in [1..Dim -> Coord] : IsSquare(1 + Dot(x, x))}

\* 1-D arrays of the extrinsic length
Vectors == [1..(Dim + 1) -> Coord]

\* points on the hyperboloid (as random_uniform builds them, and their
\* mirror images on the lower sheet) and points one unit off it
OnSheet == {intrinsic_to_extrinsic_coords(x).val : x \in Intrinsic}
Points == UNION {{p, Scale(-1, p),
                  [p EXCEPT ![1] = @ + 1], [p EXCEPT ![1] = @ - 1]}
                 : p \in OnSheet}

\* the membership invariant |squaredNorm(point) + 1| < tolerance
Valid(point) == Abs(embedding_squared_norm(point) + 1) < 1

(* -------------------------- caller's memory ---------------------------- *)

NoMem == [point |-> None, base |-> None, ret |-> None]
NoPathRet == [time |-> None, err |-> "none", val |-> None]
NoPath == [live |-> FALSE, tangent_vec |-> None, base_point |-> "none"]

Init ==
    /\ op = "none"
    /\ args = <<>>
    /\ ret = Return(None)
    /\ mem = NoMem
    /\ path = NoPath
    /\ pathret = NoPathRet
    /\ writes = 0

(* ------------------- calls of the hyperbolic space --------------------- *)

\* One call per behaviour: the caller starts from the state after
\* construction, passes the arguments a and receives the outcome r.
HCall(name, a, r) ==
    /\ op' = name
    /\ args' = a
    /\ ret' = r
    /\ UNCHANGED <<mem, path, pathret, writes>>

Call_belongs ==
    /\ op = "none"
    /\ \E point \in Points : HCall("belongs", <<point>>, belongs(point))

Call_intrinsic_to_extrinsic_coords ==
    /\ op = "none"
    /\ \E x \in Intrinsic :
           HCall("intrinsic_to_extrinsic_coords", <<x>>,
                 intrinsic_to_extrinsic_coords(x))

Call_extrinsic_to_intrinsic_coords ==
    /\ op = "none"
    /\ \E point \in Points :
           HCall("extrinsic_to_intrinsic_coords", <<point>>,
                 extrinsic_to_intrinsic_coords(point))

Call_projection_to_tangent_space ==
    /\ op = "none"
    /\ \E ref_point \in Points, vector \in Vectors :
           HCall("projection_to_tangent_space", <<ref_point, vector>>,
                 projection_to_tangent_space(ref_point, vector))

Call_riemannian_exp ==
    /\ op = "none"
    /\ \E ref_point \in Points, vector \in Vectors :
           HCall("riemannian_exp", <<ref_point, vector>>,
                 riemannian_exp(ref_point, vector))

Call_riemannian_log ==
    /\ op = "none"
    /\ \E ref_point \in Points, point \in Points :
           HCall("riemannian_log", <<ref_point, point>>,
                 riemannian_log(ref_point, point))

Call_riemannian_dist ==
    /\ op = "none"
    /\ \E point_a \in Points, point_b \in Points :
           HCall("riemannian_dist", <<point_a, point_b>>,
                 riemannian_dist(point_a, point_b))

NextH ==
    \/ Call_belongs
    \/ Call_intrinsic_to_extrinsic_coords
    \/ Call_extrinsic_to_intrinsic_coords
    \/ Call_projection_to_tangent_space
    \/ Call_riemannian_exp
    \/ Call_riemannian_log
    \/ Call_riemannian_dist

SpecH == Init /\ [][NextH]_vars

(* ------------------------ arrays of the backend ------------------------ *)

\* An n-dimensional array carries its number of axes: a scalar (0), a 1-D
\* array of times (1), a matrix (2) or a stack of matrices (3).
Arr(nd, v) == [nd |-> nd, v |-> v]

Idx == {1, 2}

MatMul(a, b) ==
    << <<a[1][1] * b[1][1] + a[1][2] * b[2][1],
         a[1][1] * b[1][2] + a[1][2] * b[2][2]>>,
       <<a[2][1] * b[1][1] + a[2][2] * b[2][1],
         a[2][1] * b[1][2] + a[2][2] * b[2][2]>> >>

MatAdd(a, b) == [i \in 1..2 |-> [j \in 1..2 |-> a[i][j] + b[i][j]]]
MatSub(a, b) == [i \in 1..2 |-> [j \in 1..2 |-> a[i][j] - b[i][j]]]
ScalarMat(c, a) == [i \in 1..2 |-> [j \in 1..2 |-> c * a[i][j]]]

Eye == << <<1, 0>>, <<0, 1>> >>
Zero == << <<0, 0>>, <<0, 0>> >>

Det(a) == a[1][1] * a[2][2] - a[1][2] * a[2][1]

\* gs.linalg.inv: the adjugate over the determinant, exact for a
\* determinant of +1 or -1; a singular matrix raises.
linalg_inv(x) ==
    IF Det(x.v) = 0 THEN Raise("LinAlgError", 31)
    ELSE Return(Arr(2, << << x.v[2][2] \div Det(x.v),
                            (- x.v[1][2]) \div Det(x.v)>>,
                          <<(- x.v[2][1]) \div Det(x.v),
                            x.v[1][1] \div Det(x.v)>> >>))

\* the power series of the exponential, sum of X^k / k!, which ends after
\* the term k = 1 on a 2x2 nilpotent matrix (X * X = 0)
Expm2(x) == MatAdd(Eye, x)

\* the power series of the logarithm, sum of -(I - U)^k / k, which ends
\* after the term k = 1 on a 2x2 unipotent matrix ((U - I) * (U - I) = 0)
Logm2(u) == MatSub(u, Eye)

\* gs.linalg.expm and gs.linalg.logm, applied matrix by matrix to a stack
linalg_expm(x) ==
    IF x.nd = 2 THEN Arr(2, Expm2(x.v))
    ELSE Arr(3, [k \in 1..Len(x.v) |-> Expm2(x.v[k])])

linalg_logm(x) ==
    IF x.nd = 2 THEN Arr(2, Logm2(x.v))
    ELSE Arr(3, [k \in 1..Len(x.v) |-> Logm2(x.v[k])])

\* Matrices.mul of two arrays: the matrix product, a matrix being broadcast
\* against a stack of matrices
mul(a, b) ==
    IF a.nd = 2 /\ b.nd = 2 THEN Arr(2, MatMul(a.v, b.v))
    ELSE IF a.nd = 2
    THEN Arr(3, [k \in 1..Len(b.v) |-> MatMul(a.v, b.v[k])])
    ELSE IF b.nd = 2
    THEN Arr(3, [k \in 1..Len(a.v) |-> MatMul(a.v[k], b.v)])
    ELSE Arr(3, [k \in 1..Len(a.v) |-> MatMul(a.v[k], b.v[k])])

\* gs.einsum('t,...ij->...tij', time, tangent_vec): the product of each
\* time with the matrix; a scalar time gives one matrix
einsum(time, tangent_vec) ==
    IF time.nd = 0 THEN Arr(2, ScalarMat(time.v, tangent_vec.v))
    ELSE Arr(3, [k \in 1..Len(time.v) |->
                    ScalarMat(time.v[k], tangent_vec.v)])

(* ------------------------ general linear group ------------------------- *)

identity == Arr(2, Eye)

\* inv as it would be if it answered a singular matrix with a value
inv_swallow(point) ==
    IF Det(point.v) = 0 THEN Return(Arr(2, Zero)) ELSE linalg_inv(point)

inv(point) == linalg_inv(point)

\* The outcome of exp carries the activations of exp that the call made, in
\* call order, each with the arguments it received.
Frame(tangent_vec, base_point) ==
    [tangent_vec |-> tangent_vec, base_point |-> base_point]

\* exp as it would be if the recursive call passed the identity matrix
\* instead of omitting the base point
RECURSIVE exp_eye(_, _)
exp_eye(tangent_vec, base_point) ==
    IF base_point = None
    THEN [err |-> "none", val |-> linalg_expm(tangent_vec), line |-> 0,
          calls |-> <<Frame(tangent_vec, base_point)>>]
    ELSE LET i == inv(base_point)
         IN  IF i.err # "none"
             THEN [err |-> i.err, val |-> None, line |-> i.line,
                   calls |-> <<Frame(tangent_vec, base_point)>>]
             ELSE LET lie_algebra_vec == mul(i.val, tangent_vec)
                      inner == IF base_point = identity
                               THEN exp_eye(lie_algebra_vec, None)
                               ELSE exp_eye(lie_algebra_vec, identity)
                  IN  [err |-> inner.err,
                       val |-> IF inner.err = "none"
                               THEN mul(base_point, inner.val)
                               ELSE None,
                       line |-> inner.line,
                       calls |-> <<Frame(tangent_vec, base_point)>>
                                 \o inner.calls]

RECURSIVE exp(_, _)
exp(tangent_vec, base_point) ==
    IF base_point = None
    THEN [err |-> "none", val |-> linalg_expm(tangent_vec), line |-> 0,
          calls |-> <<Frame(tangent_vec, base_point)>>]
    ELSE LET i == inv(base_point)
         IN  IF i.err # "none"
             THEN [err |-> i.err, val |-> None, line |-> i.line,
                   calls |-> <<Frame(tangent_vec, base_point)>>]
             ELSE LET lie_algebra_vec == mul(i.val, tangent_vec)
                      inner == exp(lie_algebra_vec, None)
                  IN  [err |-> inner.err,
                       val |-> IF inner.err = "none"
                               THEN mul(base_point, inner.val)
                               ELSE None,
                       line |-> inner.line,
                       calls |-> <<Frame(tangent_vec, base_point)>>
                                 \o inner.calls]

\* log as it would be if it translated the Lie algebra vector on the right
log_right(point, base_point) ==
    IF base_point = None
    THEN Return(linalg_logm(point))
    ELSE LET i == inv(base_point)
         IN  IF i.err # "none" THEN i
             ELSE LET lie_algebra_vec == linalg_logm(mul(i.val, point))
                  IN  Return(mul(lie_algebra_vec, base_point))

log(point, base_point) ==
    IF base_point = None
    THEN Return(linalg_logm(point))
    ELSE LET i == inv(base_point)
         IN  IF i.err # "none" THEN i
             ELSE LET lie_algebra_vec == linalg_logm(mul(i.val, point))
                  IN  Return(mul(base_point, lie_algebra_vec))

\* orbit computes the tangent vector and returns the closure `path`, which
\* holds that new array and the caller's base_point array itself (or None).
orbit(point, base_point) ==
    LET tangent_vec == log(point, base_point)
    IN  IF tangent_vec.err # "none" THEN tangent_vec
        ELSE Return([live |-> TRUE,
                     tangent_vec |-> tangent_vec.val,
                     base_point |-> IF base_point = None
                                    THEN "none" ELSE "base"])

\* path as it would be if it exponentiated at the identity
path_call_no_base(p, m, time) ==
    LET vecs == einsum(time, p.tangent_vec)
    IN  exp(vecs, None)

\* A call path(time) of the closure p, with the caller's arrays as in m.
path_call(p, m, time) ==
    LET vecs == einsum(time, p.tangent_vec)
        base_point == IF p.base_point = "none" THEN None ELSE m.base
    IN  exp(vecs, base_point)

(* ---------------------- general linear inputs -------------------------- *)

Entry == (-MaxEntry)..MaxEntry

\* matrices whose inverse, when there is one, has integer entries
Mats == {Arr(2, << <<a, b>>, <<c, d>> >>) : a, b, c, d \in Entry} \ 
        {x \in {Arr(2, << <<a, b>>, <<c, d>> >>) : a, b, c, d \in Entry} :
            Abs(Det(x.v)) > 1}

Bases == Mats \cup {None}

\* scalar times and 1-D arrays of times
ScalarTimes == {Arr(0, t) : t \in 0..MaxTime}
VectorTimes == {Arr(1, ts) : ts \in UNION {[1..n -> 0..MaxTime] :
                                             n \in 1..MaxTimes}}

IsNilpotent(x) ==
    IF x.nd = 2 THEN MatMul(x.v, x.v) = Zero
    ELSE \A k \in 1..Len(x.v) : MatMul(x.v[k], x.v[k]) = Zero

IsUnipotent(x) == IsNilpotent(Arr(2, MatSub(x.v, Eye)))

\* exp(tangent_vec, base_point) stays within the integers: the inverse
\* raises, or it is an integer matrix and expm receives a nilpotent matrix
ExpDefined(tangent_vec, base_point) ==
    IF base_point = None THEN IsNilpotent(tangent_vec)
    ELSE \/ Det(base_point.v) = 0
         \/ /\ Abs(Det(base_point.v)) = 1
            /\ IsNilpotent(mul(inv(base_point).val, tangent_vec))

\* log(point, base_point) stays within the integers: the inverse raises, or
\* it is an integer matrix and logm receives a unipotent matrix
LogDefined(point, base_point) ==
    IF base_point = None THEN IsUnipotent(point)
    ELSE \/ Det(base_point.v) = 0
         \/ /\ Abs(Det(base_point.v)) = 1
            /\ IsUnipotent(mul(inv(base_point).val, point))

(* ----------------- calls of the general linear group ------------------- *)

\* The caller passes its arrays point and base and receives the outcome r;
\* a returned array becomes the caller's third array.
GCall(name, point, base_point, r, closure) ==
    /\ op' = name
    /\ args' = <<point, base_point>>
    /\ ret' = r
    /\ mem' = [point |-> point, base |-> base_point,
               ret |-> IF r.err = "none" /\ ~closure.live
                       THEN r.val ELSE None]
    /\ path' = closure
    /\ pathret' = NoPathRet
    /\ writes' = 0

Call_inv ==
    /\ op = "none"
    /\ \E point \in Mats :
           GCall("inv", point, None, inv(point), NoPath)

Call_exp ==
    /\ op = "none"
    /\ \E tangent_vec \in Mats, base_point \in Bases :
           /\ ExpDefined(tangent_vec, base_point)
           /\ GCall("exp", tangent_vec, base_point,
                    exp(tangent_vec, base_point), NoPath)

Call_log ==
    /\ op = "none"
    /\ \E point \in Mats, base_point \in Bases :
           /\ LogDefined(point, base_point)
           /\ GCall("log", point, base_point,
                    log(point, base_point), NoPath)

Call_orbit ==
    /\ op = "none"
    /\ \E point \in Mats, base_point \in Bases :
           /\ LogDefined(point, base_point)
           /\ LET r == orbit(point, base_point)
              IN  GCall("orbit", point, base_point,
                        IF r.err = "none" THEN Return("path") ELSE r,
                        IF r.err = "none" THEN r.val ELSE NoPath)

\* The caller calls the path function it holds, once, with the argument
\* time.
PathCall(time) ==
    LET vecs == einsum(time, path.tangent_vec)
        base_point == IF path.base_point = "none" THEN None ELSE mem.base
    IN  /\ ExpDefined(vecs, base_point)
        /\ LET r == path_call(path, mem, time)
           IN  pathret' = [time |-> time, err |-> r.err, val |-> r.val]
        /\ UNCHANGED <<op, args, ret, mem, path, writes>>

Call_path_scalar ==
    /\ path.live
    /\ pathret.time = None
    /\ \E time \in ScalarTimes : PathCall(time)

Call_path_vector ==
    /\ path.live
    /\ pathret.time = None
    /\ \E time \in VectorTimes : PathCall(time)

\* The caller stores x into element [i][j] of one of its arrays.
Write ==
    /\ writes < MaxWrites
    /\ \E which \in {"point", "base", "ret"}, i \in Idx, j \in Idx,
          x \in Entry :
           /\ mem[which] # None
           /\ mem[which].v[i][j] # x
           /\ mem' = [mem EXCEPT ![which].v[i][j] = x]
    /\ writes' = writes + 1
    /\ UNCHANGED <<op, args, ret, path, pathret>>

Next ==
    \/ Call_inv
    \/ Call_exp
    \/ Call_log
    \/ Call_orbit
    \/ Call_path_scalar
    \/ Call_path_vector

Spec == Init /\ [][Next]_vars

NextAlias == Next \/ Write

SpecAlias == Init /\ [][NextAlias]_vars


(* -------------------- claims on the hyperbolic space ------------------- *)

MembershipOps == {"extrinsic_to_intrinsic_coords", "projection_to_tangent_space",
                  "riemannian_exp", "riemannian_log", "riemannian_dist"}

\* the point arguments of the call recorded in op and args
PointArgs ==
    IF op \in {"riemannian_log", "riemannian_dist"}
    THEN {args[1], args[2]}
    ELSE {args[1]}

\* C1: an operation with a membership precondition fails if and only if one
\* of its point arguments is off the hyperboloid, and returns its result
\* otherwise (extrinsic_to_intrinsic_coords: the coordinates after the first).
C1_MembershipIffInvalid ==
    op \in MembershipOps =>
        /\ (ret.err # "none") <=> (\E point \in PointArgs : ~Valid(point))
        /\ (op = "extrinsic_to_intrinsic_coords" /\ Valid(args[1]))
              => (ret.err = "none" /\ ret.val = Tail(args[1]))

\* C2: for a ref_point on the hyperboloid, projection_to_tangent_space
\* returns vector - (<ref_point, vector> / squaredNorm(ref_point)) * ref_point
\* and that result is Minkowski-orthogonal to ref_point.
C2_TangentOrthogonality ==
    (op = "projection_to_tangent_space" /\ Valid(args[1])) =>
        /\ ret.err = "none"
        /\ ret.val = VecSub(args[2],
                            Scale(embedding_inner_product(args[1], args[2])
                                    \div embedding_squared_norm(args[1]),
                                  args[1]))
        /\ embedding_inner_product(args[1], ret.val) = 0

\* C3: for points a, b on the hyperboloid riemannian_dist(a, b) returns a
\* non-negative value equal to riemannian_dist(b, a), and exactly 0 when
\* a = b.
C3_DistSymmetricZero ==
    (op = "riemannian_dist" /\ Valid(args[1]) /\ Valid(args[2])) =>
        /\ ret.err = "none"
        /\ ret = riemannian_dist(args[2], args[1])
        /\ ret.val.arccosh >= 1
        /\ (args[1] = args[2]) => (ret.val = ZeroAngle)

\* C4: for points p, q on the hyperboloid riemannian_exp(p,
\* riemannian_log(p, q)) returns q; riemannian_log(p, p) is the zero vector
\* and riemannian_exp(p, zero vector) returns p.
C4_ExpLogRoundTrip ==
    (op = "riemannian_log" /\ Valid(args[1]) /\ Valid(args[2])) =>
        /\ ret.err = "none"
        /\ riemannian_exp(args[1], ret.val) = Return(args[2])
        /\ (args[1] = args[2]) => (ret.val = [i \in 1..Len(args[1]) |-> 0])

\* C7: intrinsic_to_extrinsic_coords(x) returns <<sqrt(1 + <x, x>)>> \o x,
\* a point of squared norm -1 on which belongs holds, and
\* extrinsic_to_intrinsic_coords applied to it returns x.
C7_CoordsRoundTrip ==
    op = "intrinsic_to_extrinsic_coords" =>
        /\ ret.err = "none"
        /\ Len(ret.val) = Len(args[1]) + 1
        /\ ret.val[1] * ret.val[1] = 1 + Dot(args[1], args[1])
        /\ ret.val[1] >= 0
        /\ Tail(ret.val) = args[1]
        /\ embedding_squared_norm(ret.val) = -1
        /\ belongs(ret.val).err = "none"
        /\ extrinsic_to_intrinsic_coords(ret.val) = Return(args[1])

(* ------------------ claims on the general linear group ----------------- *)

Invertible(x) == Det(x.v) # 0

\* the base point a call used: the identity when it was omitted
BaseOrIdentity(base_point) ==
    IF base_point = None THEN identity ELSE base_point

\* C5: for an invertible point and an invertible or omitted base_point,
\* exp(log(point, base_point), base_point) returns point.
C5_GroupRoundTrip ==
    (op = "log" /\ Invertible(args[1])
       /\ (args[2] = None \/ Invertible(args[2]))) =>
        /\ ret.err = "none"
        /\ exp(ret.val, args[2]).err = "none"
        /\ exp(ret.val, args[2]).val = args[1]

\* a logarithm at a base point that does not commute with the point
C5_Witness ==
    /\ op = "log"
    /\ ret.err = "none"
    /\ args[2] # None
    /\ args[2] # identity
    /\ mul(args[1], args[2]) # mul(args[2], args[1])

C9_SingularSurfaces ==
    /\ (op = "inv" /\ ~Invertible(args[1])) =>
          (ret.err = "LinAlgError" /\ ret.val = None /\ mem.ret = None)
    /\ (op \in {"exp", "log", "orbit"} /\ args[2] # None
          /\ ~Invertible(args[2])) =>
          /\ ret.err = "LinAlgError"
          /\ ret.val = None
          /\ mem.ret = None
          /\ ~path.live
          /\ (op = "exp") => (Len(ret.calls) = 1)

\* an orbit requested at a singular, non-zero base point
C9_Witness ==
    /\ op = "orbit"
    /\ args[2] # None
    /\ ~Invertible(args[2])
    /\ args[2] # Arr(2, Zero)
    /\ ret.err = "LinAlgError"

\* C10: exp with an invertible base point makes exactly one recursive call,
\* exp(inv(base_point) * tangent_vec) with no base point, and returns
\* base_point * expm(inv(base_point) * tangent_vec), which is exp(tangent_vec)
\* when base_point is the identity matrix; exp with no base point makes no
\* recursive call and returns expm(tangent_vec).
C10_OneLevelRecursion ==
    /\ (op = "exp" /\ args[2] = None) =>
          /\ ret.err = "none"
          /\ ret.calls = <<Frame(args[1], None)>>
          /\ ret.val = linalg_expm(args[1])
    /\ (op = "exp" /\ args[2] # None /\ Invertible(args[2])) =>
          /\ ret.err = "none"
          /\ ret.calls = <<Frame(args[1], args[2]),
                           Frame(mul(linalg_inv(args[2]).val, args[1]),
                                 None)>>
          /\ ret.val = mul(args[2],
                           linalg_expm(mul(linalg_inv(args[2]).val,
                                           args[1])))
          /\ (args[2] = identity) => (ret.val = linalg_expm(args[1]))

\* an exponential of a non-zero tangent vector at a base point other than
\* the identity
C10_Witness ==
    /\ op = "exp"
    /\ args[2] # None
    /\ args[2] # identity
    /\ Invertible(args[2])
    /\ args[1] # Arr(2, Zero)
    /\ ret.err = "none"
    /\ Len(ret.calls) = 2

(* ------------------------ claim on the frame --------------------------- *)

\* what the path function held by the caller returns at time 0
PathAtZero == path_call(path, mem, Arr(0, 0)).val

\* C8: an operation leaves its argument arrays as they were passed; a write
\* to a returned array changes no argument; a write to an argument changes
\* neither a returned array nor what a path function already returned by
\* orbit gives.
C8_NoMutationNoSharing ==
    [][ /\ (op = "none" /\ op' # "none")
              => (mem'.point = args'[1] /\ mem'.base = args'[2])
        /\ (writes' = writes + 1 /\ mem'.ret # mem.ret)
              => (mem'.point = mem.point /\ mem'.base = mem.base)
        /\ (writes' = writes + 1
              /\ (mem'.point # mem.point \/ mem'.base # mem.base))
              => /\ mem'.ret = mem.ret
                 /\ path.live => (PathAtZero' = PathAtZero)
      ]_vars

====
